---------------------------- MODULE Spec2Model ----------------------------
(***************************************************************************)
(* Model of DpOutSum: the density-based outlier scorer (lof.go), the       *)
(* neighbor index and inclusion mask (knn / database sources) and the      *)
(* concurrent superset enumeration of main (main.go).                      *)
(*                                                                         *)
(* Conventions.  Record, dictionary and byte indices are 0-based as in the *)
(* Go source; a Go slice s is a TLA+ sequence whose element s[i] is        *)
(* s[i+1].  float64 values are modelled as exact fractions <<n, d>> with   *)
(* the IEEE specials the code can produce: <<1, 0>> is +Inf and <<0, 0>>   *)
(* is NaN (every quantity the scorer computes is non-negative).  Rounding  *)
(* of float64 is not modelled.                                             *)
(***************************************************************************)
EXTENDS Integers, Sequences, FiniteSets, TLC

\* ------------------------------------------------------------------------
\* Program constants.  The source values are K = 20, MinPopulationSize = 20
\* and baseline prefixes 6 / 5 / 5; the model keeps their relations
\* (K = MinPopulationSize, prefixes no longer than the dictionaries) on
\* dictionaries of one to three values per dimension.
\* ------------------------------------------------------------------------
K == 3
MinPopulationSize == 3
OutlierThreshold == <<3, 2>>
OrigCtxEmployersCount == 1
OrigCtxJobTitlesCount == 1
OrigCtxYearsCount == 1

\* Bounds of the model.
MaxWorkers == 2
MaxCalls == 2
MaxOut == 3

\* ------------------------------------------------------------------------
\* Record store
\* ------------------------------------------------------------------------
Employee(id, e, j, y, s) ==
    [Id |-> id, Employer |-> e, JobTitle |-> j, Year |-> y, Salary |-> s]

\* Ten records with distinct salaries and no equidistant triple.  The
\* baseline (employer 0, job title 0, year 0) holds records 0..4, and record
\* 4 is far from its peers.  Employer 1 alone and job title 1 alone each add
\* one record near the peers; together they also add three records near
\* record 4.
DbA ==
    [Employers |-> <<"e0", "e1">>,
     JobTitles |-> <<"j0", "j1">>,
     Years     |-> <<2001>>,
     Employees |-> << Employee(100, 0, 0, 0, 10), Employee(101, 0, 0, 0, 11),
                      Employee(102, 0, 0, 0, 13), Employee(103, 0, 0, 0, 14),
                      Employee(104, 0, 0, 0, 50), Employee(105, 1, 0, 0, 19),
                      Employee(106, 0, 1, 0, 20), Employee(107, 1, 1, 0, 49),
                      Employee(108, 1, 1, 0, 52), Employee(109, 1, 1, 0, 53) >>]

\* Three records, exactly MinPopulationSize of them in the baseline, with an
\* equidistant pair (records 0 and 2 seen from record 1).
DbB ==
    [Employers |-> <<"e0">>,
     JobTitles |-> <<"j0">>,
     Years     |-> <<2001>>,
     Employees |-> << Employee(200, 0, 0, 0, 1), Employee(201, 0, 0, 0, 2),
                      Employee(202, 0, 0, 0, 3) >>]

\* The salaries of DbA with three employers and one job title: both
\* flippable values lie in one dimension.
DbC ==
    [Employers |-> <<"e0", "e1", "e2">>,
     JobTitles |-> <<"j0">>,
     Years     |-> <<2001>>,
     Employees |-> << Employee(300, 0, 0, 0, 10), Employee(301, 0, 0, 0, 11),
                      Employee(302, 0, 0, 0, 13), Employee(303, 0, 0, 0, 14),
                      Employee(304, 0, 0, 0, 50), Employee(305, 1, 0, 0, 19),
                      Employee(306, 2, 0, 0, 20), Employee(307, 1, 0, 0, 49),
                      Employee(308, 2, 0, 0, 52), Employee(309, 2, 0, 0, 53) >>]

\* Three records of which the original context includes one: the baseline
\* population is below MinPopulationSize.
DbD ==
    [Employers |-> <<"e0", "e1">>,
     JobTitles |-> <<"j0">>,
     Years     |-> <<2001>>,
     Employees |-> << Employee(500, 0, 0, 0, 5), Employee(501, 1, 0, 0, 6),
                      Employee(502, 1, 0, 0, 7) >>]

Databases == {DbA, DbB, DbC, DbD}

\* K + 1 records with one salary: every record has K neighbors at distance 0.
DbE ==
    [Employers |-> <<"e0">>,
     JobTitles |-> <<"j0">>,
     Years     |-> <<2001>>,
     Employees |-> << Employee(600, 0, 0, 0, 7), Employee(601, 0, 0, 0, 7),
                      Employee(602, 0, 0, 0, 7), Employee(603, 0, 0, 0, 7) >>]

\* Four records with a duplicate salary (records 1 and 2) and equidistant
\* pairs, for the queries on the neighbor index.
DbT ==
    [Employers |-> <<"e0">>,
     JobTitles |-> <<"j0">>,
     Years     |-> <<2001>>,
     Employees |-> << Employee(400, 0, 0, 0, 10), Employee(401, 0, 0, 0, 12),
                      Employee(402, 0, 0, 0, 12), Employee(403, 0, 0, 0, 14) >>]

KnnDatabases == {DbB, DbT}

NumRecords(d) == Len(d.Employees)
Records(d) == 0 .. (NumRecords(d) - 1)
Emp(d, i) == d.Employees[i + 1]

\* Employee.Distance on uint32 salaries: the smaller salary is always
\* subtracted from the larger one, so the uint32 subtraction cannot wrap
\* and the conversion to Distance (uint32) keeps the value.
Distance(e, other) ==
    IF e.Salary < other.Salary
    THEN other.Salary - e.Salary
    ELSE e.Salary - other.Salary

\* Employee.Distance at the width of the source.  A uint32 is the pair
\* <<high half, low half>> of its 16-bit halves; subtraction wraps modulo
\* 2^32 as Go's does, and the conversion Distance(uint32) keeps the value.
Half == 65536

Uint32Less(a, b) == a[1] < b[1] \/ (a[1] = b[1] /\ a[2] < b[2])

Uint32Sub(a, b) ==
    LET borrow == IF a[2] < b[2] THEN 1 ELSE 0
    IN  <<(a[1] - b[1] - borrow + 2 * Half) % Half, (a[2] - b[2] + Half) % Half>>

\* Variant: the salaries are subtracted without the comparison
DistanceUint32Unordered(e, other) == Uint32Sub(e.Salary, other.Salary)

DistanceUint32(e, other) ==
    IF Uint32Less(e.Salary, other.Salary)
    THEN Uint32Sub(other.Salary, e.Salary)
    ELSE Uint32Sub(e.Salary, other.Salary)

\* The element of a one-element set.  Intermediate results are bound as
\* { body : x \in {value} } so that a value is computed once where the code
\* assigns it to a local variable.
The(S) == CHOOSE y \in S : TRUE

\* ------------------------------------------------------------------------
\* float64 as fractions
\* ------------------------------------------------------------------------
RECURSIVE Gcd(_, _)
Gcd(a, b) == IF b = 0 THEN a ELSE The({ Gcd(b, r) : r \in {a % b} })

Inf == <<1, 0>>
NaN == <<0, 0>>
IsNaN(x) == x = NaN
IsInf(x) == x = Inf

Frac(n, d) ==
    The({ IF d1 = 0 THEN (IF n1 = 0 THEN NaN ELSE Inf)
          ELSE The({ <<n1 \div g, d1 \div g>> : g \in {Gcd(n1, d1)} }) :
          n1 \in {n}, d1 \in {d} })

FromInt(n) == <<n, 1>>

FAdd(x, y) ==
    The({ IF IsNaN(a) \/ IsNaN(b) THEN NaN
          ELSE IF IsInf(a) \/ IsInf(b) THEN Inf
          ELSE Frac(a[1] * b[2] + b[1] * a[2], a[2] * b[2]) :
          a \in {x}, b \in {y} })

FMul(x, y) ==
    The({ IF IsNaN(a) \/ IsNaN(b) THEN NaN
          ELSE IF IsInf(a) THEN (IF b[1] = 0 THEN NaN ELSE Inf)
          ELSE IF IsInf(b) THEN (IF a[1] = 0 THEN NaN ELSE Inf)
          ELSE Frac(a[1] * b[1], a[2] * b[2]) :
          a \in {x}, b \in {y} })

FDiv(x, y) ==
    The({ IF IsNaN(a) \/ IsNaN(b) THEN NaN
          ELSE IF IsInf(a) THEN (IF IsInf(b) THEN NaN ELSE Inf)
          ELSE IF IsInf(b) THEN <<0, 1>>
          ELSE Frac(a[1] * b[2], a[2] * b[1]) :
          a \in {x}, b \in {y} })

\* x >= y; false as soon as one side is NaN
FGeq(x, y) ==
    The({ IF IsNaN(a) \/ IsNaN(b) THEN FALSE
          ELSE IF IsInf(a) THEN TRUE
          ELSE IF IsInf(b) THEN FALSE
          ELSE a[1] * b[2] >= b[1] * a[2] :
          a \in {x}, b \in {y} })


\* ------------------------------------------------------------------------
\* Context
\* ------------------------------------------------------------------------
\* make([]T, n): n zero values
RECURSIVE Make(_, _)
Make(zero, n) == IF n = 0 THEN <<>> ELSE Append(Make(zero, n - 1), zero)

NewContext(d) ==
    [EmployersIncluded |-> Make(FALSE, Len(d.Employers)),
     JobTitlesIncluded |-> Make(FALSE, Len(d.JobTitles)),
     YearsIncluded     |-> Make(FALSE, Len(d.Years))]

\* copy(dst, src) overwrites the min(len(dst), len(src)) leading elements
RECURSIVE CopySlice(_, _)
CopySlice(dst, src) ==
    IF dst = <<>> THEN <<>>
    ELSE IF src = <<>> THEN dst
    ELSE <<Head(src)>> \o CopySlice(Tail(dst), Tail(src))

\* Variant: the copy goes the other way and leaves the receiver as it was
CopyReversed(c, other) == c

Copy(c, other) ==
    [EmployersIncluded |-> CopySlice(c.EmployersIncluded, other.EmployersIncluded),
     JobTitlesIncluded |-> CopySlice(c.JobTitlesIncluded, other.JobTitlesIncluded),
     YearsIncluded     |-> CopySlice(c.YearsIncluded, other.YearsIncluded)]

AllContexts(d) ==
    [EmployersIncluded : [1 .. Len(d.Employers) -> BOOLEAN],
     JobTitlesIncluded : [1 .. Len(d.JobTitles) -> BOOLEAN],
     YearsIncluded     : [1 .. Len(d.Years) -> BOOLEAN]]

\* ------------------------------------------------------------------------
\* Database.Filter: the stream of booleans sent on the out channel, in
\* record order, up to the close.
\* ------------------------------------------------------------------------
RECURSIVE FilterLoop(_, _, _, _)
FilterLoop(employees, validEmployers, validJobTitles, validYears) ==
    IF employees = <<>> THEN <<>>
    ELSE LET employee == Head(employees)
             valid == /\ validEmployers[employee.Employer + 1]
                      /\ validJobTitles[employee.JobTitle + 1]
                      /\ validYears[employee.Year + 1]
         IN <<valid>> \o FilterLoop(Tail(employees), validEmployers, validJobTitles,
                                    validYears)

Filter(d, validEmployers, validJobTitles, validYears) ==
    FilterLoop(d.Employees, validEmployers, validJobTitles, validYears)

\* ------------------------------------------------------------------------
\* InclusionMask
\* ------------------------------------------------------------------------
NewInclusionMask(d) ==
    [Mask  |-> Make(0, (NumRecords(d) + 7) \div 8),
     Count |-> 0]

Pow2(n) == 2 ^ n

\* v & (1 << (7 - bit)) != 0 on a uint8
TestBit(v, bit) == (v \div Pow2(7 - bit)) % 2 = 1

\* v | (1 << (7 - bit)) on a uint8
OrBit(v, bit) == IF TestBit(v, bit) THEN v ELSE v + Pow2(7 - bit)

\* Variant: the byte is not zeroed when its first bit is reached
FillStepNoClear(im, include, b, bit) ==
    IF include
    THEN [Mask |-> [im.Mask EXCEPT ![b + 1] = OrBit(im.Mask[b + 1], bit)],
          Count |-> im.Count + 1]
    ELSE im

\* One received value in Fill: the byte is zeroed at its first bit, the bit
\* is set and Count incremented when the record is included.  Count is only
\* ever incremented.
FillStep(im, include, b, bit) ==
    LET cleared == IF bit = 0 THEN [im.Mask EXCEPT ![b + 1] = 0] ELSE im.Mask
    IN IF include
       THEN [Mask |-> [cleared EXCEPT ![b + 1] = OrBit(cleared[b + 1], bit)],
             Count |-> im.Count + 1]
       ELSE [Mask |-> cleared, Count |-> im.Count]

\* The receive loop of Fill from stream position pos, with the loop
\* variables b and bit.
RECURSIVE FillLoop(_, _, _, _, _)
FillLoop(im, inclusion, pos, b, bit) ==
    IF pos > Len(inclusion) THEN im
    ELSE The({ IF bit + 1 > 7
               THEN FillLoop(im2, inclusion, pos + 1, b + 1, 0)
               ELSE FillLoop(im2, inclusion, pos + 1, b, bit + 1) :
               im2 \in {FillStep(im, inclusion[pos], b, bit)} })

Fill(im, inclusion) == FillLoop(im, inclusion, 1, 0, 0)

IsIncluded(im, i) == TestBit(im.Mask[(i \div 8) + 1], i % 8)

\* ------------------------------------------------------------------------
\* Knn: the neighbor index
\* ------------------------------------------------------------------------
\* Row i as filled by precomputeDistances: the targets other than i in the
\* order sort.Slice leaves them.  sort.Slice is not stable, so every order
\* that is non-decreasing in distance is a possible outcome.
RECURSIVE SortedRows(_, _, _)
SortedRows(d, i, rest) ==
    IF rest = {} THEN {<<>>}
    ELSE LET least == {j \in rest : \A k \in rest :
                          Distance(Emp(d, i), Emp(d, j)) <= Distance(Emp(d, i), Emp(d, k))}
         IN UNION {{<<j>> \o t : t \in SortedRows(d, i, rest \ {j})} : j \in least}

\* The possible rows 0 .. n-1 of the index, as a sequence of rows
RECURSIVE RowsUpTo(_, _)
RowsUpTo(d, n) ==
    IF n = 0 THEN {<<>>}
    ELSE {Append(f, r) : f \in RowsUpTo(d, n - 1),
                         r \in SortedRows(d, n - 1, Records(d) \ {n - 1})}

\* The possible values of knn.NearestNeighbors after NewKnn
NewKnn(d) == {[i \in Records(d) |-> f[i + 1]] : f \in RowsUpTo(d, NumRecords(d))}

\* KNearest(im, i, out): scans row i, writes the included neighbors into
\* out and stops when out is full.  Result: the count, the buffer, and
\* whether a write went past len(out) (an index-out-of-range panic).
RECURSIVE KNearestLoop(_, _, _, _, _)

\* Variant: the scan takes every neighbor of the row, included or not
RECURSIVE KNearestLoopUnmasked(_, _, _, _, _)
KNearestLoopUnmasked(row, im, pos, out, validNeighbors) ==
    IF pos > Len(row) THEN [n |-> validNeighbors, out |-> out, panic |-> FALSE]
    ELSE IF validNeighbors >= Len(out)
         THEN [n |-> validNeighbors, out |-> out, panic |-> TRUE]
         ELSE The({ IF validNeighbors + 1 >= Len(out)
                    THEN [n |-> validNeighbors + 1, out |-> out2, panic |-> FALSE]
                    ELSE KNearestLoopUnmasked(row, im, pos + 1, out2, validNeighbors + 1) :
                    out2 \in {[out EXCEPT ![validNeighbors + 1] = row[pos]]} })

KNearestLoop(row, im, pos, out, validNeighbors) ==
    IF pos > Len(row) THEN [n |-> validNeighbors, out |-> out, panic |-> FALSE]
    ELSE IF ~IsIncluded(im, row[pos])
         THEN KNearestLoop(row, im, pos + 1, out, validNeighbors)
         ELSE IF validNeighbors >= Len(out)
              THEN [n |-> validNeighbors, out |-> out, panic |-> TRUE]
              ELSE The({ IF validNeighbors + 1 >= Len(out)
                         THEN [n |-> validNeighbors + 1, out |-> out2, panic |-> FALSE]
                         ELSE KNearestLoop(row, im, pos + 1, out2, validNeighbors + 1) :
                         out2 \in {[out EXCEPT ![validNeighbors + 1] = row[pos]]} })

KNearest(nn, im, i, out) == KNearestLoop(nn[i], im, 1, out, 0)

\* ------------------------------------------------------------------------
\* Lof: the outlier scorer
\* ------------------------------------------------------------------------
NewThreadCache(d) ==
    [Neighborhoods              |-> [i \in Records(d) |-> Make(0, K)],
     CoreDistance               |-> [i \in Records(d) |-> 0],
     LocalReachabilityDensities |-> [i \in Records(d) |-> <<0, 1>>]]

\* One iteration of the loop of computeCoreDistances for an included i.
\* Neighborhoods[i] is resliced to the count found and keeps that length.
\* With no neighbor found, Neighborhoods[i][numNeighbors-1] is out of range.
CoreStep(d, nn, cache, im, i) ==
    The({ IF r.panic \/ r.n = 0
          THEN [panic |-> TRUE, hood |-> SubSeq(r.out, 1, r.n), core |-> cache.CoreDistance[i]]
          ELSE [panic |-> FALSE, hood |-> SubSeq(r.out, 1, r.n),
                core |-> Distance(Emp(d, i), Emp(d, r.out[r.n]))] :
          r \in {KNearest(nn, im, i, cache.Neighborhoods[i])} })

\* computeCoreDistances: the iterations are independent of each other (each
\* reads the mask and the index and writes entry i only).
computeCoreDistances(d, nn, cache, im) ==
    The({ [panic |-> \E i \in Records(d) : step[i].panic,
           cache |-> [cache EXCEPT !.Neighborhoods = [i \in Records(d) |-> step[i].hood],
                                   !.CoreDistance = [i \in Records(d) |-> step[i].core]]] :
          step \in {[i \in Records(d) |->
                        IF IsIncluded(im, i) THEN CoreStep(d, nn, cache, im, i)
                        ELSE [panic |-> FALSE, hood |-> cache.Neighborhoods[i],
                              core |-> cache.CoreDistance[i]]]} })

RECURSIVE ReachSum(_, _, _, _)
ReachSum(d, cache, i, pos) ==
    IF pos > Len(cache.Neighborhoods[i]) THEN 0
    ELSE The({ (IF dist < cache.CoreDistance[j] THEN cache.CoreDistance[j] ELSE dist)
               + ReachSum(d, cache, i, pos + 1) :
               j \in {cache.Neighborhoods[i][pos]},
               dist \in {Distance(Emp(d, cache.Neighborhoods[i][pos]), Emp(d, i))} })

\* Variant: the density is added to the value the cache held
computeLrdsAccumulating(d, cache, im) ==
    [cache EXCEPT !.LocalReachabilityDensities =
        [i \in Records(d) |->
            IF IsIncluded(im, i)
            THEN FAdd(cache.LocalReachabilityDensities[i],
                      Frac(Len(cache.Neighborhoods[i]), ReachSum(d, cache, i, 1)))
            ELSE cache.LocalReachabilityDensities[i]]]

computeLrds(d, cache, im) ==
    [cache EXCEPT !.LocalReachabilityDensities =
        [i \in Records(d) |->
            IF IsIncluded(im, i)
            THEN Frac(Len(cache.Neighborhoods[i]), ReachSum(d, cache, i, 1))
            ELSE cache.LocalReachabilityDensities[i]]]

RECURSIVE LrdSum(_, _, _)
LrdSum(cache, i, pos) ==
    IF pos > Len(cache.Neighborhoods[i]) THEN <<0, 1>>
    ELSE FAdd(cache.LocalReachabilityDensities[cache.Neighborhoods[i][pos]],
              LrdSum(cache, i, pos + 1))

Score(cache, i) ==
    FDiv(LrdSum(cache, i, 1),
         FMul(FromInt(Len(cache.Neighborhoods[i])), cache.LocalReachabilityDensities[i]))

\* computeLofs from record i on: the calls made to outlierHandler, in order,
\* as <<record index, score>>.  keepGoing is the handler's return value.
RECURSIVE computeLofs(_, _, _, _, _)

\* Variant: the handler's return value is ignored
RECURSIVE computeLofsNoStop(_, _, _, _, _)
computeLofsNoStop(d, cache, im, i, keepGoing) ==
    IF i >= NumRecords(d) THEN <<>>
    ELSE IF ~IsIncluded(im, i) THEN computeLofsNoStop(d, cache, im, i + 1, keepGoing)
    ELSE The({ IF FGeq(score, OutlierThreshold)
               THEN <<<<i, score>>>> \o computeLofsNoStop(d, cache, im, i + 1, keepGoing)
               ELSE computeLofsNoStop(d, cache, im, i + 1, keepGoing) :
               score \in {Score(cache, i)} })

computeLofs(d, cache, im, i, keepGoing) ==
    IF i >= NumRecords(d) THEN <<>>
    ELSE IF ~IsIncluded(im, i) THEN computeLofs(d, cache, im, i + 1, keepGoing)
    ELSE The({ IF FGeq(score, OutlierThreshold)
               THEN IF keepGoing
                    THEN <<<<i, score>>>> \o computeLofs(d, cache, im, i + 1, keepGoing)
                    ELSE <<<<i, score>>>>
               ELSE computeLofs(d, cache, im, i + 1, keepGoing) :
               score \in {Score(cache, i)} })

\* Lof.FindOutliers: the three passes.  A panic in the first pass ends the
\* process before any handler call.
LofFindOutliers(d, nn, cache, im, keepGoing) ==
    The({ IF c1.panic
          THEN [panic |-> TRUE, cache |-> c1.cache, calls |-> <<>>]
          ELSE The({ [panic |-> FALSE, cache |-> c2,
                      calls |-> computeLofs(d, c2, im, 0, keepGoing)] :
                     c2 \in {computeLrds(d, c1.cache, im)} }) :
          c1 \in {computeCoreDistances(d, nn, cache, im)} })

\* FindOutliers of main.go: fill the mask from the filter stream, apply the
\* minimum-population gate to im.Count, then score.
FindOutliers(d, nn, cache, im, c, keepGoing) ==
    The({ IF im2.Count < MinPopulationSize
          THEN [scored |-> FALSE, panic |-> FALSE, cache |-> cache, im |-> im2,
                calls |-> <<>>]
          ELSE The({ [scored |-> TRUE, panic |-> r.panic, cache |-> r.cache, im |-> im2,
                      calls |-> r.calls] :
                     r \in {LofFindOutliers(d, nn, cache, im2, keepGoing)} }) :
          im2 \in {Fill(im, Filter(d, c.EmployersIncluded, c.JobTitlesIncluded,
                                   c.YearsIncluded))} })

\* ------------------------------------------------------------------------
\* Superset enumeration
\* ------------------------------------------------------------------------
\* The original context of main: the first OrigCtx*Count values of every
\* dimension included.
OrigContext(d) ==
    [EmployersIncluded |-> Make(TRUE, OrigCtxEmployersCount)
                           \o Make(FALSE, Len(d.Employers) - OrigCtxEmployersCount),
     JobTitlesIncluded |-> Make(TRUE, OrigCtxJobTitlesCount)
                           \o Make(FALSE, Len(d.JobTitles) - OrigCtxJobTitlesCount),
     YearsIncluded     |-> Make(TRUE, OrigCtxYearsCount)
                           \o Make(FALSE, Len(d.Years) - OrigCtxYearsCount)]

DimField(dim) ==
    CASE dim = 1 -> "EmployersIncluded"
      [] dim = 2 -> "JobTitlesIncluded"
      [] dim = 3 -> "YearsIncluded"

OrigCount(dim) ==
    CASE dim = 1 -> OrigCtxEmployersCount
      [] dim = 2 -> OrigCtxJobTitlesCount
      [] dim = 3 -> OrigCtxYearsCount
      [] OTHER   -> 0

Last(s) == s[Len(s)]

\* RecursivePermute over c[dim][i:], the handler of dimension dim being the
\* RecursivePermute of dimension dim + 1 and the innermost handler taking a
\* snapshot of the context.  The slice is written in place: the second
\* recursive call starts from the context as the first one left it, which is
\* its last snapshot.  Result: the contexts seen by the innermost handler,
\* in call order.
RECURSIVE RecursivePermute(_, _, _)

\* Variant: slice[0] is not reset to false before the first recursive call
RecursivePermuteNoReset(c, dim, i) ==
    IF dim > 3 THEN <<c>>
    ELSE IF i > Len(c[DimField(dim)])
         THEN RecursivePermute(c, dim + 1, OrigCount(dim + 1) + 1)
         ELSE The({ first \o RecursivePermute([Last(first) EXCEPT ![DimField(dim)][i] = TRUE],
                                              dim, i + 1) :
                    first \in {RecursivePermute(c, dim, i + 1)} })

RecursivePermute(c, dim, i) ==
    IF dim > 3 THEN <<c>>
    ELSE IF i > Len(c[DimField(dim)])
         THEN RecursivePermute(c, dim + 1, OrigCount(dim + 1) + 1)
         ELSE The({ first \o RecursivePermute([Last(first) EXCEPT ![DimField(dim)][i] = TRUE],
                                              dim, i + 1) :
                    first \in {RecursivePermute([c EXCEPT ![DimField(dim)][i] = FALSE],
                                                dim, i + 1)} })

Leaves(d) == RecursivePermute(OrigContext(d), 1, OrigCtxEmployersCount + 1)

FlippableVariables(d) ==
    (Len(d.Employers) - OrigCtxEmployersCount)
    + (Len(d.JobTitles) - OrigCtxJobTitlesCount)
    + (Len(d.Years) - OrigCtxYearsCount)

TotalContexts(d) == 2 ^ FlippableVariables(d)

\* ------------------------------------------------------------------------
\* State
\* ------------------------------------------------------------------------
VARIABLES
    db,                 \* the Database read by ReadDatabase
    NearestNeighbors,   \* knn.NearestNeighbors
    workerCount,        \* runtime.NumCPU()
    mainPc,             \* position of main
    ctx,                \* main's Context, permuted in place
    origOutlier,        \* record index of the designated target, -1 = nil
    originalContext,    \* main's flag: the next leaf is the baseline
    leaf,               \* number of innermost handler calls made so far
    processedContexts,
    pWorkCtx,           \* the buffer held by the handler, 0 = none
    buffers,            \* contents of the pooled Context buffers, by id
    ctxReuseChan,       \* buffered channel: queue of buffer ids
    workChanClosed,
    matchChanClosed,
    finishedCount,      \* receives done by main's join loop
    wPc,                \* position of every worker
    wCtx,               \* every worker's workCtx (buffer id, 0 = none)
    cache,              \* every worker's LofCache
    im,                 \* every worker's InclusionMask
    match,              \* every worker's matchingContext
    rPc,                \* position of the reporter
    rMatch,             \* the worker whose match the reporter received
    foundContexts,
    outFile,            \* the matching-context entries written so far
    handlerCalls,       \* history: contexts seen by the innermost handler
    dispatched,         \* history: contents sent on workChan
    wLog,               \* history: what every worker evaluated
    hCache,             \* scorer harness: the reused LofCache
    hIm,                \* scorer harness: the reused InclusionMask
    hCalls,             \* scorer harness: number of FindOutliers calls
    hLast,              \* scorer harness: the last call and its result
    kMainPc,            \* precomputeDistances: position of the caller
    kI,                 \* precomputeDistances: the loop index i of the sends
    kWorkClosed,        \* precomputeDistances: workChan is closed
    kFinished,          \* precomputeDistances: receives done on finishedChan
    kPc,                \* position of every build worker
    kRow,               \* every build worker's i
    kSorted,            \* every build worker's distances after sort.Slice (targets)
    kPos,               \* every build worker's position in range distances
    kSlot,              \* every build worker's next
    kHanded,            \* history: <<i, worker>> for every receive on workChan
    kWritten            \* history: per row, the <<worker, slot>> writes made

mainVars == <<mainPc, ctx, origOutlier, originalContext, leaf, processedContexts,
              pWorkCtx, finishedCount>>
chanVars == <<buffers, ctxReuseChan, workChanClosed, matchChanClosed>>
workerVars == <<wPc, wCtx, cache, im, match>>
reporterVars == <<rPc, rMatch, foundContexts, outFile>>
histVars == <<handlerCalls, dispatched, wLog>>
harnessVars == <<hCache, hIm, hCalls, hLast>>
buildVars == <<kMainPc, kI, kWorkClosed, kFinished, kPc, kRow, kSorted, kPos, kSlot,
               kHanded, kWritten>>
inputVars == <<db, NearestNeighbors, workerCount, buildVars>>

vars == <<inputVars, mainVars, chanVars, workerVars, reporterVars, histVars, harnessVars>>

Workers == 1 .. workerCount

NoCall == [ctx |-> <<>>, scored |-> FALSE, panic |-> FALSE, calls |-> <<>>, before |-> <<>>]

\* A panic in any goroutine ends the process.
Crashed == \E w \in Workers : wPc[w] = "panic"

\* The locals of main and of its goroutines before the baseline step, for a
\* record store and a neighbor index already chosen.
InitLocals ==
    /\ workerCount \in 1 .. MaxWorkers
    /\ ctx = OrigContext(db)
    /\ origOutlier = -1
    /\ originalContext = TRUE
    /\ leaf = 0
    /\ processedContexts = 0
    /\ pWorkCtx = 0
    /\ buffers = <<>>
    /\ ctxReuseChan = <<>>
    /\ workChanClosed = FALSE
    /\ matchChanClosed = FALSE
    /\ finishedCount = 0
    /\ wPc = [w \in Workers |-> "unstarted"]
    /\ wCtx = [w \in Workers |-> 0]
    /\ cache = [w \in Workers |-> NewThreadCache(db)]
    /\ im = [w \in Workers |-> NewInclusionMask(db)]
    /\ match = [w \in Workers |-> [context |-> 0, popSize |-> 0, outlierList |-> <<>>]]
    /\ rPc = "unstarted"
    /\ rMatch = 0
    /\ foundContexts = 0
    /\ outFile = <<>>
    /\ handlerCalls = <<>>
    /\ dispatched = <<>>
    /\ wLog = [w \in Workers |-> <<>>]
    /\ hCache = NewThreadCache(db)
    /\ hIm = NewInclusionMask(db)
    /\ hCalls = 0
    /\ hLast = NoCall

\* precomputeDistances has returned; its histories are not kept.
BuildReturned ==
    /\ kMainPc = "returned"
    /\ kI = NumRecords(db)
    /\ kWorkClosed = TRUE
    /\ kFinished = workerCount
    /\ kPc = [w \in Workers |-> "exited"]
    /\ kRow = [w \in Workers |-> 0]
    /\ kSorted = [w \in Workers |-> <<>>]
    /\ kPos = [w \in Workers |-> 0]
    /\ kSlot = [w \in Workers |-> 0]
    /\ kHanded = <<>>
    /\ kWritten = <<>>

InitCommon ==
    /\ db \in Databases
    /\ NearestNeighbors \in NewKnn(db)
    /\ InitLocals
    /\ BuildReturned

\* main after NewKnn and the construction of the original context
Init ==
    /\ InitCommon
    /\ mainPc = "baseline"

\* ------------------------------------------------------------------------
\* main: baseline step and start of the concurrent phase
\* ------------------------------------------------------------------------
\* The handler of the baseline step returns false: at most one call.
\* Variant: the nil check on origOutlier is left out
BaselineUnchecked ==
    /\ mainPc = "baseline"
    /\ \E r \in {FindOutliers(db, NearestNeighbors, NewThreadCache(db),
                               NewInclusionMask(db), ctx, FALSE)} :
          /\ mainPc' = "setup"
          /\ origOutlier' = IF r.calls = <<>> THEN -1 ELSE r.calls[1][1]
    /\ UNCHANGED <<ctx, originalContext, leaf, processedContexts, pWorkCtx, finishedCount>>
    /\ UNCHANGED <<inputVars, chanVars, workerVars, reporterVars, histVars, harnessVars>>

Baseline ==
    /\ mainPc = "baseline"
    /\ \E r \in {FindOutliers(db, NearestNeighbors, NewThreadCache(db),
                               NewInclusionMask(db), ctx, FALSE)} :
          IF r.calls = <<>>
          THEN /\ mainPc' = "fatal"
               /\ origOutlier' = -1
          ELSE /\ mainPc' = "setup"
               /\ origOutlier' = r.calls[1][1]
    /\ UNCHANGED <<ctx, originalContext, leaf, processedContexts, pWorkCtx, finishedCount>>
    /\ UNCHANGED <<inputVars, chanVars, workerVars, reporterVars, histVars, harnessVars>>

\* Channels made, workers and reporter started (all block on their first
\* receive), and the pool filled with workerCount new contexts.
StartPipeline ==
    /\ mainPc = "setup"
    /\ mainPc' = "enum"
    /\ wPc' = [w \in Workers |-> "recv"]
    /\ rPc' = "recv"
    /\ buffers' = [b \in 1 .. workerCount |-> NewContext(db)]
    /\ ctxReuseChan' = [b \in 1 .. workerCount |-> b]
    /\ originalContext' = TRUE
    /\ processedContexts' = 0
    /\ UNCHANGED <<ctx, origOutlier, leaf, pWorkCtx, finishedCount>>
    /\ UNCHANGED <<workChanClosed, matchChanClosed, wCtx, cache, im, match>>
    /\ UNCHANGED <<rMatch, foundContexts, outFile>>
    /\ UNCHANGED <<inputVars, histVars, harnessVars>>

\* ------------------------------------------------------------------------
\* main: the producer
\* ------------------------------------------------------------------------
\* RecursivePermute reaches its next leaf and calls the innermost handler.
\* The first call finds originalContext set, clears it and returns.
HandlerEnter ==
    /\ mainPc = "enum"
    /\ ~Crashed
    /\ leaf < Len(Leaves(db))
    /\ leaf' = leaf + 1
    /\ ctx' = Leaves(db)[leaf + 1]
    /\ handlerCalls' = Append(handlerCalls, ctx')
    /\ IF originalContext
       THEN /\ originalContext' = FALSE
            /\ mainPc' = "enum"
       ELSE /\ originalContext' = originalContext
            /\ mainPc' = "acquire"
    /\ UNCHANGED <<origOutlier, processedContexts, pWorkCtx, finishedCount>>
    /\ UNCHANGED <<dispatched, wLog>>
    /\ UNCHANGED <<inputVars, chanVars, workerVars, reporterVars, harnessVars>>

\* workCtx := <-ctxReuseChan
AcquireContext ==
    /\ mainPc = "acquire"
    /\ ~Crashed
    /\ ctxReuseChan # <<>>
    /\ pWorkCtx' = Head(ctxReuseChan)
    /\ ctxReuseChan' = Tail(ctxReuseChan)
    /\ mainPc' = "copy"
    /\ UNCHANGED <<ctx, origOutlier, originalContext, leaf, processedContexts, finishedCount>>
    /\ UNCHANGED <<buffers, workChanClosed, matchChanClosed>>
    /\ UNCHANGED <<inputVars, workerVars, reporterVars, histVars, harnessVars>>

\* workCtx.Copy(ctx)
CopyContext ==
    /\ mainPc = "copy"
    /\ ~Crashed
    /\ buffers' = [buffers EXCEPT ![pWorkCtx] = Copy(@, ctx)]
    /\ mainPc' = "send"
    /\ UNCHANGED <<ctx, origOutlier, originalContext, leaf, processedContexts, pWorkCtx,
                   finishedCount>>
    /\ UNCHANGED <<ctxReuseChan, workChanClosed, matchChanClosed>>
    /\ UNCHANGED <<inputVars, workerVars, reporterVars, histVars, harnessVars>>

\* workChan <- workCtx meets the receive of worker w (unbuffered channel);
\* the handler then counts the context and returns.  A send on a closed
\* channel panics.
Dispatch(w) ==
    /\ mainPc = "send"
    /\ ~Crashed
    /\ IF workChanClosed
       THEN /\ mainPc' = "panic"
            /\ UNCHANGED <<wCtx, wPc, dispatched, processedContexts, pWorkCtx>>
       ELSE /\ wPc[w] = "recv"
            /\ wCtx' = [wCtx EXCEPT ![w] = pWorkCtx]
            /\ wPc' = [wPc EXCEPT ![w] = "eval"]
            /\ dispatched' = Append(dispatched, buffers[pWorkCtx])
            /\ processedContexts' = processedContexts + 1
            /\ pWorkCtx' = 0
            /\ mainPc' = "enum"
    /\ UNCHANGED <<ctx, origOutlier, originalContext, leaf, finishedCount>>
    /\ UNCHANGED <<cache, im, match, handlerCalls, wLog>>
    /\ UNCHANGED <<inputVars, chanVars, reporterVars, harnessVars>>

\* The outermost RecursivePermute has returned: close(workChan)
CloseWorkChan ==
    /\ mainPc = "enum"
    /\ ~Crashed
    /\ leaf = Len(Leaves(db))
    /\ workChanClosed' = TRUE
    /\ mainPc' = "join"
    /\ UNCHANGED <<ctx, origOutlier, originalContext, leaf, processedContexts, pWorkCtx,
                   finishedCount>>
    /\ UNCHANGED <<buffers, ctxReuseChan, matchChanClosed>>
    /\ UNCHANGED <<inputVars, workerVars, reporterVars, histVars, harnessVars>>

\* ------------------------------------------------------------------------
\* Workers
\* ------------------------------------------------------------------------
ThisContextMatches(calls, target) == \E k \in 1 .. Len(calls) : calls[k][1] = target

\* Where the worker goes after the evaluation of a context
AfterEval(panic, matches) ==
    IF panic THEN "panic" ELSE IF matches THEN "submit" ELSE "release"

\* Variant: the list of the previous context is kept
ResetOutlierListKept(outlierList) == outlierList

\* match.outlierList[:0]: the list keeps its storage and has no entry
ResetOutlierList(outlierList) == SubSeq(outlierList, 1, 0)

\* match.context = workCtx; the outlier list is emptied and the handler
\* appends to it at every call; match.popSize = im.Count
WorkerEval(w) ==
    /\ wPc[w] = "eval"
    /\ ~Crashed
    /\ \E r \in {FindOutliers(db, NearestNeighbors, cache[w], im[w], buffers[wCtx[w]], TRUE)} :
       LET thisContextMatches == ThisContextMatches(r.calls, origOutlier)
       IN /\ cache' = [cache EXCEPT ![w] = r.cache]
          /\ im' = [im EXCEPT ![w] = r.im]
          /\ match' = [match EXCEPT ![w] = [context |-> wCtx[w],
                                            popSize |-> r.im.Count,
                                            outlierList |->
                                                ResetOutlierList(match[w].outlierList)
                                                \o r.calls]]
          /\ wPc' = [wPc EXCEPT ![w] = AfterEval(r.panic, thisContextMatches)]
          /\ wLog' = [wLog EXCEPT ![w] = Append(@, [context |-> buffers[wCtx[w]],
                                                    scored |-> r.scored,
                                                    calls |-> r.calls,
                                                    matches |-> thisContextMatches])]
    /\ UNCHANGED <<wCtx, handlerCalls, dispatched>>
    /\ UNCHANGED <<inputVars, mainVars, chanVars, reporterVars, harnessVars>>

\* Variant: the worker does not wait for printedNotice
AfterSubmitNoWait == "release"

\* Where the worker goes once the reporter has received its match
AfterSubmit == "wait"

\* matchingContextChan <- match meets the receive of the reporter; a send
\* on a closed channel panics.
SubmitMatch(w) ==
    /\ wPc[w] = "submit"
    /\ ~Crashed
    /\ IF matchChanClosed
       THEN /\ wPc' = [wPc EXCEPT ![w] = "panic"]
            /\ UNCHANGED <<rPc, rMatch>>
       ELSE /\ rPc = "recv"
            /\ rMatch' = w
            /\ rPc' = "print"
            /\ wPc' = [wPc EXCEPT ![w] = AfterSubmit]
    /\ UNCHANGED <<wCtx, cache, im, match, foundContexts, outFile>>
    /\ UNCHANGED <<inputVars, mainVars, chanVars, histVars, harnessVars>>

\* ctxReuseChan <- workCtx (capacity workerCount), then back to the receive
ReleaseContext(w) ==
    /\ wPc[w] = "release"
    /\ ~Crashed
    /\ Len(ctxReuseChan) < workerCount
    /\ ctxReuseChan' = Append(ctxReuseChan, wCtx[w])
    /\ wPc' = [wPc EXCEPT ![w] = "recv"]
    /\ UNCHANGED <<buffers, workChanClosed, matchChanClosed>>
    /\ UNCHANGED <<wCtx, cache, im, match>>
    /\ UNCHANGED <<inputVars, mainVars, reporterVars, histVars, harnessVars>>

\* The receive on the closed workChan reports !more: the loop breaks and
\* the deferred send on finishedChan is pending.
WorkerBreak(w) ==
    /\ wPc[w] = "recv"
    /\ ~Crashed
    /\ workChanClosed
    /\ wPc' = [wPc EXCEPT ![w] = "finishing"]
    /\ UNCHANGED <<wCtx, cache, im, match>>
    /\ UNCHANGED <<inputVars, mainVars, chanVars, reporterVars, histVars, harnessVars>>

\* ------------------------------------------------------------------------
\* Reporter
\* ------------------------------------------------------------------------
\* The entry written for the received match: the reporter reads popSize,
\* the context behind match.context and the outlier list.
ReporterPrint ==
    /\ rPc = "print"
    /\ ~Crashed
    /\ outFile' = Append(outFile, [popSize |-> match[rMatch].popSize,
                                   context |-> buffers[match[rMatch].context],
                                   outlierList |-> match[rMatch].outlierList])
    /\ foundContexts' = foundContexts + 1
    /\ rPc' = "ack"
    /\ UNCHANGED rMatch
    /\ UNCHANGED <<inputVars, mainVars, chanVars, workerVars, histVars, harnessVars>>

\* Variant: the woken worker goes back to the receive without returning its
\* context to the pool
AcknowledgeSkipRelease ==
    /\ rPc = "ack"
    /\ ~Crashed
    /\ wPc[rMatch] = "wait"
    /\ wPc' = [wPc EXCEPT ![rMatch] = "recv"]
    /\ rPc' = "recv"
    /\ UNCHANGED <<rMatch, foundContexts, outFile>>
    /\ UNCHANGED <<wCtx, cache, im, match>>
    /\ UNCHANGED <<inputVars, mainVars, chanVars, histVars, harnessVars>>

\* match.printedNotice <- struct{}{} meets the receive of the waiting worker
Acknowledge ==
    /\ rPc = "ack"
    /\ ~Crashed
    /\ wPc[rMatch] = "wait"
    /\ wPc' = [wPc EXCEPT ![rMatch] = "release"]
    /\ rPc' = "recv"
    /\ UNCHANGED <<rMatch, foundContexts, outFile>>
    /\ UNCHANGED <<wCtx, cache, im, match>>
    /\ UNCHANGED <<inputVars, mainVars, chanVars, histVars, harnessVars>>

\* The receive on the closed matchingContextChan reports !more
ReporterBreak ==
    /\ rPc = "recv"
    /\ ~Crashed
    /\ matchChanClosed
    /\ rPc' = "finishing"
    /\ UNCHANGED <<rMatch, foundContexts, outFile>>
    /\ UNCHANGED <<inputVars, mainVars, chanVars, workerVars, histVars, harnessVars>>

\* ------------------------------------------------------------------------
\* main: shutdown.  finishedChan is one unbuffered channel shared by the
\* workers and the reporter; main takes whichever send is pending.
\* ------------------------------------------------------------------------
\* Variant: the join loop makes one receive too few
MainAfterFinishedShortJoin ==
    IF mainPc = "join"
    THEN /\ finishedCount' = finishedCount + 1
         /\ mainPc' = IF finishedCount + 1 >= workerCount - 1 THEN "closeMatch" ELSE "join"
    ELSE /\ finishedCount' = finishedCount
         /\ mainPc' = "done"

MainAfterFinished ==
    IF mainPc = "join"
    THEN /\ finishedCount' = finishedCount + 1
         /\ mainPc' = IF finishedCount + 1 = workerCount THEN "closeMatch" ELSE "join"
    ELSE /\ finishedCount' = finishedCount
         /\ mainPc' = "done"

WorkerFinished(w) ==
    /\ mainPc \in {"join", "joinReporter"}
    /\ ~Crashed
    /\ wPc[w] = "finishing"
    /\ wPc' = [wPc EXCEPT ![w] = "exited"]
    /\ MainAfterFinished
    /\ UNCHANGED <<ctx, origOutlier, originalContext, leaf, processedContexts, pWorkCtx>>
    /\ UNCHANGED <<wCtx, cache, im, match>>
    /\ UNCHANGED <<inputVars, chanVars, reporterVars, histVars, harnessVars>>

ReporterFinished ==
    /\ mainPc \in {"join", "joinReporter"}
    /\ ~Crashed
    /\ rPc = "finishing"
    /\ rPc' = "exited"
    /\ MainAfterFinished
    /\ UNCHANGED <<ctx, origOutlier, originalContext, leaf, processedContexts, pWorkCtx>>
    /\ UNCHANGED <<rMatch, foundContexts, outFile>>
    /\ UNCHANGED <<inputVars, chanVars, workerVars, histVars, harnessVars>>

\* Variant: main goes on to the last receive without closing the channel
CloseMatchChanForgotten ==
    /\ mainPc = "closeMatch"
    /\ ~Crashed
    /\ mainPc' = "joinReporter"
    /\ UNCHANGED <<ctx, origOutlier, originalContext, leaf, processedContexts, pWorkCtx,
                   finishedCount>>
    /\ UNCHANGED <<buffers, ctxReuseChan, workChanClosed, matchChanClosed>>
    /\ UNCHANGED <<inputVars, workerVars, reporterVars, histVars, harnessVars>>

\* close(matchingContextChan) after workerCount receives on finishedChan
CloseMatchChan ==
    /\ mainPc = "closeMatch"
    /\ ~Crashed
    /\ matchChanClosed' = TRUE
    /\ mainPc' = "joinReporter"
    /\ UNCHANGED <<ctx, origOutlier, originalContext, leaf, processedContexts, pWorkCtx,
                   finishedCount>>
    /\ UNCHANGED <<buffers, ctxReuseChan, workChanClosed>>
    /\ UNCHANGED <<inputVars, workerVars, reporterVars, histVars, harnessVars>>

Next ==
    \/ Baseline
    \/ StartPipeline
    \/ HandlerEnter
    \/ AcquireContext
    \/ CopyContext
    \/ \E w \in Workers : Dispatch(w)
    \/ CloseWorkChan
    \/ \E w \in Workers : WorkerEval(w)
    \/ \E w \in Workers : SubmitMatch(w)
    \/ \E w \in Workers : ReleaseContext(w)
    \/ \E w \in Workers : WorkerBreak(w)
    \/ ReporterPrint
    \/ Acknowledge
    \/ ReporterBreak
    \/ \E w \in Workers : WorkerFinished(w)
    \/ ReporterFinished
    \/ CloseMatchChan

Spec == Init /\ [][Next]_vars

\* The Go scheduler runs some goroutine that can take a step.
FairSpec == Spec /\ WF_vars(Next)

\* ------------------------------------------------------------------------
\* Scorer harness: FindOutliers called repeatedly, as a worker does, with
\* one LofCache and one InclusionMask, on arbitrary contexts.
\* ------------------------------------------------------------------------
InitScorer ==
    /\ InitCommon
    /\ mainPc = "scorer"

CallFindOutliers(c) ==
    /\ mainPc = "scorer"
    /\ hCalls < MaxCalls
    /\ ~hLast.panic
    /\ \E r \in {FindOutliers(db, NearestNeighbors, hCache, hIm, c, TRUE)} :
          /\ hCache' = r.cache
          /\ hIm' = r.im
          /\ hLast' = [ctx |-> c, scored |-> r.scored, panic |-> r.panic,
                       calls |-> r.calls, before |-> hCache]
    /\ hCalls' = hCalls + 1
    /\ UNCHANGED <<inputVars, mainVars, chanVars, workerVars, reporterVars, histVars>>

NextScorer == \E c \in AllContexts(db) : CallFindOutliers(c)

SpecScorer == InitScorer /\ [][NextScorer]_vars

\* The scorer harness on a store in which K + 1 records share a salary.
InitEqualSalaries ==
    /\ db = DbE
    /\ NearestNeighbors \in NewKnn(db)
    /\ InitLocals
    /\ BuildReturned
    /\ mainPc = "scorer"

SpecEqualSalaries == InitEqualSalaries /\ [][NextScorer]_vars

\* ------------------------------------------------------------------------
\* Visitors: FindOutliers called on one reused cache and mask with a
\* handler that returns true (the workers') or false (the baseline step's),
\* and Lof.FindOutliers invoked once more on the mask and cache as left.
\* ------------------------------------------------------------------------
\* The baseline handler assigns origOutlier at every call: the record of
\* the last call, -1 (nil) without a call.
BaselineTarget(calls) == IF calls = <<>> THEN -1 ELSE Last(calls)[1]

CallVisitor(c, keepGoing) ==
    /\ mainPc = "scorer"
    /\ hCalls < MaxCalls
    /\ ~hLast.panic
    /\ \E r \in {FindOutliers(db, NearestNeighbors, hCache, hIm, c, keepGoing)} :
          /\ hCache' = r.cache
          /\ hIm' = r.im
          /\ hLast' = [ctx |-> c, scored |-> r.scored, panic |-> r.panic,
                       calls |-> r.calls, before |-> hCache, keepGoing |-> keepGoing,
                       target |-> BaselineTarget(r.calls),
                       repeated |-> FALSE, firstCalls |-> <<>>]
    /\ hCalls' = hCalls + 1
    /\ UNCHANGED <<inputVars, mainVars, chanVars, workerVars, reporterVars, histVars>>

\* lof.FindOutliers(cache, im, outlierHandler) once more, after a call that
\* was scored
RepeatLofFindOutliers ==
    /\ mainPc = "scorer"
    /\ hCalls >= 1
    /\ hCalls < MaxCalls
    /\ hLast.scored /\ ~hLast.panic
    /\ \E r \in {LofFindOutliers(db, NearestNeighbors, hCache, hIm, hLast.keepGoing)} :
          /\ hCache' = r.cache
          /\ hLast' = [hLast EXCEPT !.panic = r.panic, !.calls = r.calls,
                                    !.before = hCache,
                                    !.target = BaselineTarget(r.calls),
                                    !.repeated = TRUE, !.firstCalls = hLast.calls]
    /\ hCalls' = hCalls + 1
    /\ UNCHANGED hIm
    /\ UNCHANGED <<inputVars, mainVars, chanVars, workerVars, reporterVars, histVars>>

NextLof ==
    \/ \E c \in AllContexts(db), keepGoing \in BOOLEAN : CallVisitor(c, keepGoing)
    \/ RepeatLofFindOutliers

SpecLof == InitScorer /\ [][NextLof]_vars

\* ------------------------------------------------------------------------
\* Employee.Distance called on two records with salaries from the whole
\* range of uint32: around 0, 2^16, 2^31 and 2^32 - 1.
\* ------------------------------------------------------------------------
HighHalves == {0, 1, 32767, 32768, 65535}
LowHalves == {0, 1, 65535}
Salaries == HighHalves \X LowHalves

CallDistance(a, b) ==
    /\ mainPc = "distance"
    /\ hLast' = [a |-> a, b |-> b,
                 ab |-> DistanceUint32([Salary |-> a], [Salary |-> b]),
                 ba |-> DistanceUint32([Salary |-> b], [Salary |-> a]),
                 aa |-> DistanceUint32([Salary |-> a], [Salary |-> a])]
    /\ UNCHANGED <<hCache, hIm, hCalls>>
    /\ UNCHANGED <<inputVars, mainVars, chanVars, workerVars, reporterVars, histVars>>

InitDistance ==
    /\ InitCommon
    /\ mainPc = "distance"

NextDistance == \E a \in Salaries, b \in Salaries : CallDistance(a, b)

SpecDistance == InitDistance /\ [][NextDistance]_vars

\* ------------------------------------------------------------------------
\* Neighbor queries: one InclusionMask filled from arbitrary streams, as
\* Fill receives them, and KNearest called on it with any record and any
\* buffer length from 1 to MaxOut.
\* ------------------------------------------------------------------------
\* The boolean streams of length n
RECURSIVE Streams(_)
Streams(n) ==
    IF n = 0 THEN {<<>>}
    ELSE {Append(t, b) : t \in Streams(n - 1), b \in BOOLEAN}

InitKnn ==
    /\ db \in KnnDatabases
    /\ NearestNeighbors \in NewKnn(db)
    /\ InitLocals
    /\ BuildReturned
    /\ mainPc = "scorer"

FillMask(inclusion) ==
    /\ mainPc = "scorer"
    /\ hCalls < MaxCalls
    /\ hIm' = Fill(hIm, inclusion)
    /\ hCalls' = hCalls + 1
    /\ hLast' = NoCall
    /\ UNCHANGED hCache
    /\ UNCHANGED <<inputVars, mainVars, chanVars, workerVars, reporterVars, histVars>>

\* out is a buffer of k slots holding a value that is no record index
CallKNearest(i, k) ==
    /\ mainPc = "scorer"
    /\ hCalls >= 1
    /\ hLast' = [i |-> i, k |-> k,
                 result |-> KNearest(NearestNeighbors, hIm, i, Make(NumRecords(db), k))]
    /\ UNCHANGED <<hCache, hIm, hCalls>>
    /\ UNCHANGED <<inputVars, mainVars, chanVars, workerVars, reporterVars, histVars>>

NextKnn ==
    \/ \E inclusion \in Streams(NumRecords(db)) : FillMask(inclusion)
    \/ \E i \in Records(db), k \in 1 .. MaxOut : CallKNearest(i, k)

SpecKnn == InitKnn /\ [][NextKnn]_vars

\* ------------------------------------------------------------------------
\* Knn.precomputeDistances: the parallel build of the neighbor index.
\* workChan and finishedChan are unbuffered; a send and its receive are
\* one step.
\* ------------------------------------------------------------------------
\* make([][]uint64, n) with rows make([]uint64, n-1)
EmptyIndex(d) ==
    The({ [i \in Records(d) |-> row] : row \in {Make(0, NumRecords(d) - 1)} })

InitBuild ==
    /\ db \in KnnDatabases
    /\ NearestNeighbors = EmptyIndex(db)
    /\ InitLocals
    /\ mainPc = "newKnn"
    /\ kMainPc = "send"
    /\ kI = 0
    /\ kWorkClosed = FALSE
    /\ kFinished = 0
    /\ kPc = [w \in Workers |-> "recv"]
    /\ kRow = [w \in Workers |-> 0]
    /\ kSorted = [w \in Workers |-> <<>>]
    /\ kPos = [w \in Workers |-> 0]
    /\ kSlot = [w \in Workers |-> 0]
    /\ kHanded = <<>>
    /\ kWritten = [i \in Records(db) |-> {}]

pipelineVars == <<mainVars, chanVars, workerVars, reporterVars, histVars, harnessVars>>

\* workChan <- i meets i, moreWork := <-workChan of worker w
BuildDispatch(w) ==
    /\ kMainPc = "send"
    /\ kI < NumRecords(db)
    /\ kPc[w] = "recv"
    /\ kRow' = [kRow EXCEPT ![w] = kI]
    /\ kPc' = [kPc EXCEPT ![w] = "sort"]
    /\ kHanded' = Append(kHanded, <<kI, w>>)
    /\ kI' = kI + 1
    /\ UNCHANGED <<kMainPc, kWorkClosed, kFinished, kSorted, kPos, kSlot, kWritten>>
    /\ UNCHANGED <<db, NearestNeighbors, workerCount, pipelineVars>>

\* close(workChan) after the last send
BuildClose ==
    /\ kMainPc = "send"
    /\ kI = NumRecords(db)
    /\ kWorkClosed' = TRUE
    /\ kMainPc' = "join"
    /\ UNCHANGED <<kI, kFinished, kPc, kRow, kSorted, kPos, kSlot, kHanded, kWritten>>
    /\ UNCHANGED <<db, NearestNeighbors, workerCount, pipelineVars>>

\* The distances of all n targets from record i (0 for i itself) and
\* sort.Slice on them: any order that is non-decreasing in distance.
BuildSort(w) ==
    /\ kPc[w] = "sort"
    /\ \E sorted \in SortedRows(db, kRow[w], Records(db)) :
          kSorted' = [kSorted EXCEPT ![w] = sorted]
    /\ kPos' = [kPos EXCEPT ![w] = 1]
    /\ kSlot' = [kSlot EXCEPT ![w] = 0]
    /\ kPc' = [kPc EXCEPT ![w] = "fill"]
    /\ UNCHANGED <<kMainPc, kI, kWorkClosed, kFinished, kRow, kHanded, kWritten>>
    /\ UNCHANGED <<db, NearestNeighbors, workerCount, pipelineVars>>

\* Variant: the entry skipped is the first of the sorted list
IsSelfFirstEntry(target, i, pos) == pos = 1

\* neighbor.target == i
IsSelf(target, i, pos) == target = i

\* One iteration of the loop over the sorted distances: the entry of i
\* itself is skipped, any other target is written to slot next.  A write
\* past the n-1 slots of the row is an index-out-of-range panic.
BuildFill(w) ==
    /\ kPc[w] = "fill"
    /\ LET i == kRow[w]
           target == kSorted[w][kPos[w]]
           last == kPos[w] = Len(kSorted[w])
       IN IF IsSelf(target, i, kPos[w])
          THEN /\ kPc' = [kPc EXCEPT ![w] = IF last THEN "recv" ELSE "fill"]
               /\ UNCHANGED <<NearestNeighbors, kSlot, kWritten>>
          ELSE IF kSlot[w] >= NumRecords(db) - 1
               THEN /\ kPc' = [kPc EXCEPT ![w] = "panic"]
                    /\ UNCHANGED <<NearestNeighbors, kSlot, kWritten>>
               ELSE /\ NearestNeighbors' =
                           [NearestNeighbors EXCEPT ![i][kSlot[w] + 1] = target]
                    /\ kWritten' = [kWritten EXCEPT ![i] = @ \cup {<<w, kSlot[w]>>}]
                    /\ kSlot' = [kSlot EXCEPT ![w] = @ + 1]
                    /\ kPc' = [kPc EXCEPT ![w] = IF last THEN "recv" ELSE "fill"]
    /\ kPos' = [kPos EXCEPT ![w] = @ + 1]
    /\ UNCHANGED <<kMainPc, kI, kWorkClosed, kFinished, kRow, kSorted, kHanded>>
    /\ UNCHANGED <<db, workerCount, pipelineVars>>

\* The receive on the closed workChan reports !moreWork
BuildBreak(w) ==
    /\ kPc[w] = "recv"
    /\ kWorkClosed
    /\ kPc' = [kPc EXCEPT ![w] = "finishing"]
    /\ UNCHANGED <<kMainPc, kI, kWorkClosed, kFinished, kRow, kSorted, kPos, kSlot,
                   kHanded, kWritten>>
    /\ UNCHANGED <<db, NearestNeighbors, workerCount, pipelineVars>>

\* Variant: the join loop makes one receive too few
BuildAfterFinishedShortJoin ==
    IF kFinished + 1 >= workerCount - 1 THEN "returned" ELSE "join"

\* Where the caller is after one more receive on finishedChan
BuildAfterFinished ==
    IF kFinished + 1 = workerCount THEN "returned" ELSE "join"

\* The deferred finishedChan send of worker w meets a receive of the join
\* loop; after workerCount receives precomputeDistances returns.
BuildFinished(w) ==
    /\ kMainPc = "join"
    /\ kPc[w] = "finishing"
    /\ kPc' = [kPc EXCEPT ![w] = "exited"]
    /\ kFinished' = kFinished + 1
    /\ kMainPc' = BuildAfterFinished
    /\ UNCHANGED <<kI, kWorkClosed, kRow, kSorted, kPos, kSlot, kHanded, kWritten>>
    /\ UNCHANGED <<db, NearestNeighbors, workerCount, pipelineVars>>

NextBuild ==
    \/ \E w \in Workers : BuildDispatch(w)
    \/ BuildClose
    \/ \E w \in Workers : BuildSort(w)
    \/ \E w \in Workers : BuildFill(w)
    \/ \E w \in Workers : BuildBreak(w)
    \/ \E w \in Workers : BuildFinished(w)

SpecBuild == InitBuild /\ [][NextBuild]_vars

\* ------------------------------------------------------------------------
\* Properties
\* ------------------------------------------------------------------------
Range(seq) == {seq[k] : k \in 1 .. Len(seq)}

\* Records a context includes, by the definition of the inclusion mask
IncludedBy(d, c) ==
    {i \in Records(d) : /\ c.EmployersIncluded[Emp(d, i).Employer + 1]
                        /\ c.JobTitlesIncluded[Emp(d, i).JobTitle + 1]
                        /\ c.YearsIncluded[Emp(d, i).Year + 1]}

MaskBits(d, m) == {i \in Records(d) : IsIncluded(m, i)}

PipelineStarted == mainPc \notin {"baseline", "setup", "fatal", "scorer"}
WorkersJoined == mainPc \in {"closeMatch", "joinReporter", "done"}
EnumerationOver == mainPc \in {"join", "closeMatch", "joinReporter", "done"}

\* What a pool of one worker reports: the contexts in dispatch order, all
\* evaluated with the same cache and mask.
RECURSIVE SequentialReport(_, _, _, _, _, _)
SequentialReport(d, nn, target, todo, c, m) ==
    IF todo = <<>> THEN {}
    ELSE UNION { (IF ThisContextMatches(r.calls, target)
                  THEN {[context |-> Head(todo), outlierList |-> r.calls]}
                  ELSE {})
                 \cup SequentialReport(d, nn, target, Tail(todo), r.cache, r.im) :
                 r \in {FindOutliers(d, nn, c, m, Head(todo), TRUE)} }

Reported == {[context |-> e.context, outlierList |-> e.outlierList] : e \in Range(outFile)}

\* C1: when main reaches the summary, the set of reported matching contexts
\* (context and outlier list) is the one a single worker produces, for every
\* pool size and every interleaving.
C1_SameMatchesForEveryPoolSize ==
    mainPc = "done" =>
        Reported = SequentialReport(db, NearestNeighbors, origOutlier, Tail(Leaves(db)),
                                    NewThreadCache(db), NewInclusionMask(db))

C1_Witness ==
    /\ mainPc = "done"
    /\ workerCount >= 2
    /\ \A w \in Workers : Len(wLog[w]) >= 1
    /\ \E w \in Workers : Len(wLog[w]) >= 2
    /\ Len(outFile) >= 2

\* C2: while the reporter holds a match, its worker is blocked on
\* printedNotice; a blocked worker's match (context pointer, population
\* size, outlier list) and the context behind it do not change, it gets no
\* new context, and it leaves the wait only by the reporter's send.
C2_ReporterReadsQuietBuffer ==
    rPc \in {"print", "ack"} => wPc[rMatch] = "wait"

C2_WaitingWorkerIsFrozen ==
    \A w \in Workers :
        wPc[w] = "wait" =>
            /\ match'[w] = match[w]
            /\ wCtx'[w] = wCtx[w]
            /\ buffers'[match[w].context] = buffers[match[w].context]
            /\ wPc'[w] # "wait" => (rPc = "ack" /\ rMatch = w /\ rPc' = "recv")

C2_Handshake == [](C2_ReporterReadsQuietBuffer) /\ [][C2_WaitingWorkerIsFrozen]_vars

C2_Witness ==
    /\ rPc = "print"
    /\ wPc[rMatch] = "wait"
    /\ mainPc = "copy"

\* C3: once the pipeline runs there are workerCount buffers, each in exactly
\* one place (pool, producer, one worker); the producer copies only into a
\* buffer nobody else holds or reads; the pool never exceeds its capacity,
\* so a worker's send back to it finds room.
HeldByWorker(w, b) == wCtx[w] = b /\ wPc[w] \in {"eval", "submit", "wait", "release", "panic"}

Places(b) ==
    Cardinality({k \in 1 .. Len(ctxReuseChan) : ctxReuseChan[k] = b})
    + (IF pWorkCtx = b THEN 1 ELSE 0)
    + Cardinality({w \in Workers : HeldByWorker(w, b)})

C3_BufferOwnership ==
    PipelineStarted =>
        /\ DOMAIN buffers = 1 .. workerCount
        /\ \A b \in 1 .. workerCount : Places(b) = 1
        /\ mainPc \in {"copy", "send"} =>
              /\ pWorkCtx \in 1 .. workerCount
              /\ ~(rPc \in {"print", "ack"} /\ match[rMatch].context = pWorkCtx)
        /\ Len(ctxReuseChan) <= workerCount
        /\ \A w \in Workers : wPc[w] = "release" => Len(ctxReuseChan) < workerCount

C3_Witness ==
    /\ mainPc = "copy"
    /\ rPc = "print"
    /\ \E w \in Workers : wPc[w] = "wait"
    /\ ctxReuseChan = <<>>

\* C4: under fair scheduling a started pipeline reaches the final summary
\* with every worker and the reporter exited and both channels closed.
C4_Terminates ==
    (mainPc = "enum") ~>
        (/\ mainPc = "done"
         /\ \A w \in Workers : wPc[w] = "exited"
         /\ rPc = "exited"
         /\ workChanClosed /\ matchChanClosed)

C4_Witness ==
    /\ mainPc = "done"
    /\ workerCount >= 2
    /\ foundContexts >= 1
    /\ \A w \in Workers : wPc[w] = "exited"

\* C5: after a scored call on a reused cache, every record of the mask has
\* the neighborhood, core distance, density and reported outliers that a
\* new cache gives on the same mask.
FreshRun == LofFindOutliers(db, NearestNeighbors, NewThreadCache(db), hIm, TRUE)

C5_ReusedCacheIsFresh ==
    (hCalls >= 1 /\ hLast.scored /\ ~hLast.panic) =>
        /\ hLast.calls = FreshRun.calls
        /\ \A i \in MaskBits(db, hIm) :
              /\ hCache.Neighborhoods[i] = FreshRun.cache.Neighborhoods[i]
              /\ hCache.CoreDistance[i] = FreshRun.cache.CoreDistance[i]
              /\ hCache.LocalReachabilityDensities[i]
                     = FreshRun.cache.LocalReachabilityDensities[i]

\* C6: a context that includes fewer than MinPopulationSize records is not
\* scored and its handler is never called, also on a reused mask.
C6_GateBelowFloor ==
    (hCalls >= 1 /\ Cardinality(IncludedBy(db, hLast.ctx)) < MinPopulationSize) =>
        (~hLast.scored /\ hLast.calls = <<>>)

\* C7: every worker's im.Count is the number of bits set in its mask, and
\* the population size of every reported match is the number of records its
\* context includes.
C7_CountIsPopulation ==
    /\ \A w \in Workers : im[w].Count = Cardinality(MaskBits(db, im[w]))
    /\ \A e \in Range(outFile) : e.popSize = Cardinality(IncludedBy(db, e.context))

\* C8: the innermost handler is called 2^m times, with pairwise distinct
\* contexts that are exactly the supersets of the original context; the
\* original context is the first call and no other.
Supersets(d) ==
    {c \in AllContexts(d) :
        /\ \A k \in 1 .. OrigCtxEmployersCount : c.EmployersIncluded[k]
        /\ \A k \in 1 .. OrigCtxJobTitlesCount : c.JobTitlesIncluded[k]
        /\ \A k \in 1 .. OrigCtxYearsCount : c.YearsIncluded[k]}

C8_EnumerationComplete ==
    /\ \A k \in 1 .. Len(handlerCalls) :
          (handlerCalls[k] = OrigContext(db)) <=> (k = 1)
    /\ EnumerationOver =>
          /\ Len(handlerCalls) = TotalContexts(db)
          /\ \A k, l \in 1 .. Len(handlerCalls) : handlerCalls[k] = handlerCalls[l] => k = l
          /\ Range(handlerCalls) = Supersets(db)

C8_Witness ==
    /\ EnumerationOver
    /\ Len(handlerCalls) = 4

\* C9: the original context is never sent on workChan; the k-th send
\* carries the (k+1)-th leaf as enumerated; once main has joined the
\* workers every non-baseline leaf has been sent once and evaluated once
\* by one worker, and processedContexts = 2^m - 1.
Evaluations(c) ==
    {<<w, k>> \in Workers \X (1 .. TotalContexts(db)) :
        k <= Len(wLog[w]) /\ wLog[w][k].context = c}

C9_EveryLeafOnce ==
    /\ \A k \in 1 .. Len(dispatched) :
          /\ dispatched[k] # OrigContext(db)
          /\ dispatched[k] = handlerCalls[k + 1]
    /\ \A w \in Workers : \A k \in 1 .. Len(wLog[w]) : wLog[w][k].context \in Range(dispatched)
    /\ WorkersJoined =>
          /\ dispatched = Tail(Leaves(db))
          /\ Len(dispatched) = TotalContexts(db) - 1
          /\ \A k \in 1 .. Len(dispatched) : Cardinality(Evaluations(dispatched[k])) = 1
          /\ processedContexts = TotalContexts(db) - 1

C9_Witness ==
    /\ WorkersJoined
    /\ workerCount >= 2
    /\ processedContexts = 3
    /\ \A w \in Workers : Len(wLog[w]) >= 1

\* C10: at the summary foundContexts counts the evaluations that found the
\* target; each of those contexts has one entry in the report, there is no
\* other entry, and no worker or reporter is left with a pending match.
MatchedEvaluations ==
    {<<w, k>> \in Workers \X (1 .. TotalContexts(db)) :
        k <= Len(wLog[w]) /\ wLog[w][k].matches}

C10_FoundContextsIsMatchCount ==
    mainPc = "done" =>
        /\ foundContexts = Cardinality(MatchedEvaluations)
        /\ Len(outFile) = foundContexts
        /\ \A k, l \in 1 .. Len(outFile) : outFile[k].context = outFile[l].context => k = l
        /\ {e.context : e \in Range(outFile)}
               = {wLog[p[1]][p[2]].context : p \in MatchedEvaluations}
        /\ \A w \in Workers : wPc[w] = "exited"
        /\ rPc = "exited"

C10_Witness ==
    /\ mainPc = "done"
    /\ foundContexts = 2
    /\ \E w \in Workers : \E k \in 1 .. Len(wLog[w]) : ~wLog[w][k].matches

\* C11: KNearest on any mask, record i and buffer of k >= 1 slots returns
\* c <= k and fills out[0..c-1] with distinct included records other than i,
\* in non-decreasing distance from i; no included record left out is
\* strictly closer to i than a returned one; c < k only if fewer than k
\* records other than i are included.
IsQuery == "k" \in DOMAIN hLast

DistanceFrom(i, j) == Distance(Emp(db, i), Emp(db, j))

C11_KNearestContract ==
    IsQuery =>
        LET i == hLast.i
            k == hLast.k
            c == hLast.result.n
            out == hLast.result.out
            others == MaskBits(db, hIm) \ {i}
            returned == {out[p] : p \in 1 .. c}
        IN /\ ~hLast.result.panic
           /\ Len(out) = k
           /\ c <= k
           /\ returned \subseteq others
           /\ \A p, q \in 1 .. c : out[p] = out[q] => p = q
           /\ \A p \in 1 .. c - 1 : DistanceFrom(i, out[p]) <= DistanceFrom(i, out[p + 1])
           /\ \A j \in others \ returned :
                 \A p \in 1 .. c : DistanceFrom(i, j) >= DistanceFrom(i, out[p])
           /\ c < k => Cardinality(others) < k

C11_Witness ==
    /\ IsQuery
    /\ hCalls >= 2
    /\ hLast.result.n = hLast.k
    /\ \E j \in MaskBits(db, hIm) \ {hLast.i} :
          \A p \in 1 .. hLast.k : hLast.result.out[p] # j
    /\ \E j \in Records(db) \ {hLast.i} :
          /\ ~IsIncluded(hIm, j)
          /\ DistanceFrom(hLast.i, j) < DistanceFrom(hLast.i, hLast.result.out[1])

\* C12: after NewKnn returns, every row i of NearestNeighbors holds each
\* record other than i exactly once (n-1 entries, never i) in non-decreasing
\* distance from record i.
IsRanking(row, i) ==
    /\ Len(row) = NumRecords(db) - 1
    /\ Range(row) = Records(db) \ {i}
    /\ \A p \in 1 .. Len(row) - 1 : DistanceFrom(i, row[p]) <= DistanceFrom(i, row[p + 1])

C12_RowsAreSortedPermutations ==
    kMainPc = "returned" =>
        /\ DOMAIN NearestNeighbors = Records(db)
        /\ \A i \in Records(db) : IsRanking(NearestNeighbors[i], i)
        /\ NearestNeighbors \in NewKnn(db)

C12_Witness ==
    /\ kMainPc = "returned"
    /\ kHanded # <<>>
    /\ workerCount >= 2
    /\ \E i, j \in Records(db) : i # j /\ DistanceFrom(i, j) = 0

\* C19: in every row of the index, records at equal distance from record i
\* appear in ascending record-index order.
C19_TiesInIndexOrder ==
    kMainPc = "returned" =>
        \A i \in Records(db) :
            \A p, q \in 1 .. Len(NearestNeighbors[i]) :
                (/\ p < q
                 /\ DistanceFrom(i, NearestNeighbors[i][p])
                        = DistanceFrom(i, NearestNeighbors[i][q]))
                    => NearestNeighbors[i][p] < NearestNeighbors[i][q]

\* C20: during the build every row index is received by exactly one worker,
\* in the order sent; only that worker writes the row; precomputeDistances
\* returns only when every slot of every row is written and every worker
\* has exited; no step changes NearestNeighbors after the return.
Writers(i) == {e[1] : e \in kWritten[i]}

C20_BuildState ==
    /\ \A k \in 1 .. Len(kHanded) : kHanded[k][1] = k - 1
    /\ Len(kHanded) = kI
    /\ \A i \in DOMAIN kWritten :
          /\ Cardinality(Writers(i)) <= 1
          /\ \A w \in Writers(i) : <<i, w>> \in Range(kHanded)
    /\ \A w, v \in Workers :
          (w # v /\ kPc[w] \in {"sort", "fill"} /\ kPc[v] \in {"sort", "fill"})
              => kRow[w] # kRow[v]
    /\ \A w \in Workers : kPc[w] # "panic"
    /\ (kMainPc = "returned" /\ mainPc = "newKnn") =>
          /\ kI = NumRecords(db)
          /\ \A i \in Records(db) :
                {e[2] : e \in kWritten[i]} = 0 .. (NumRecords(db) - 2)
          /\ \A w \in Workers : kPc[w] = "exited"

C20_NoWriteAfterReturn ==
    kMainPc = "returned" => NearestNeighbors' = NearestNeighbors

C20_BuildIsExclusiveAndComplete == [](C20_BuildState) /\ [][C20_NoWriteAfterReturn]_vars

C20_Witness ==
    /\ kMainPc = "returned"
    /\ mainPc = "newKnn"
    /\ \E i, j \in Records(db) : Writers(i) # Writers(j)
    /\ \E w \in Workers : Cardinality({k \in 1 .. Len(kHanded) : kHanded[k][2] = w}) >= 2

\* C14: after FindOutliers has filled the mask from the filter stream of a
\* context, a record is included by the mask exactly when the context
\* includes its employer, its job title and its year, also when the mask
\* held the bits of earlier contexts.
C14_MaskIsContextFilter ==
    (hCalls >= 1 /\ ~IsQuery) => MaskBits(db, hIm) = IncludedBy(db, hLast.ctx)

C14_Witness ==
    /\ hCalls = 2
    /\ ~IsQuery
    /\ NumRecords(db) > 8
    /\ MaskBits(db, hIm) # {}
    /\ IsIncluded(hIm, 9) /\ ~IsIncluded(hIm, 0)
    /\ hIm.Count - Cardinality(MaskBits(db, hIm)) > Cardinality(MaskBits(db, hIm))

\* C13: a second Lof.FindOutliers on the same mask, with the cache as the
\* first invocation left it, reports the same outliers with the same scores
\* and leaves the same core distances and local reachability densities.
IsRepeat == "repeated" \in DOMAIN hLast /\ hLast.repeated

C13_RepeatIsIdentical ==
    IsRepeat =>
        /\ ~hLast.panic
        /\ hLast.calls = hLast.firstCalls
        /\ \A i \in Records(db) :
              /\ hCache.CoreDistance[i] = hLast.before.CoreDistance[i]
              /\ hCache.LocalReachabilityDensities[i]
                     = hLast.before.LocalReachabilityDensities[i]
              /\ hCache.Neighborhoods[i] = hLast.before.Neighborhoods[i]

C13_Witness ==
    /\ IsRepeat
    /\ hLast.keepGoing
    /\ Len(hLast.calls) >= 2
    /\ \E i \in MaskBits(db, hIm) : hCache.CoreDistance[i] > 0

\* C15: the visitor is called only for included records whose score is at
\* least the threshold, in strictly ascending record order; once it has
\* returned false no further call is made; so a visitor that returns false
\* is left with the lowest included record that scores at or above the
\* threshold.
IsVisit == "keepGoing" \in DOMAIN hLast

Qualifying == {i \in MaskBits(db, hIm) : FGeq(Score(hCache, i), OutlierThreshold)}

C15_VisitorOrderAndStop ==
    (IsVisit /\ hLast.scored /\ ~hLast.panic) =>
        LET calls == hLast.calls
        IN /\ \A k \in 1 .. Len(calls) :
                 /\ calls[k][1] \in Qualifying
                 /\ calls[k][2] = Score(hCache, calls[k][1])
           /\ \A k \in 1 .. Len(calls) - 1 : calls[k][1] < calls[k + 1][1]
           /\ hLast.keepGoing => {calls[k][1] : k \in 1 .. Len(calls)} = Qualifying
           /\ ~hLast.keepGoing =>
                 /\ Len(calls) <= 1
                 /\ Qualifying = {} => hLast.target = -1
                 /\ Qualifying # {} =>
                        /\ hLast.target \in Qualifying
                        /\ \A i \in Qualifying : hLast.target <= i

C15_Witness ==
    /\ IsVisit
    /\ ~hLast.keepGoing
    /\ hLast.scored /\ ~hLast.panic
    /\ Cardinality(Qualifying) >= 2
    /\ ~IsIncluded(hIm, 0)

\* C16: when the original context yields no outlier, also because its
\* population is below the gate, main stops at the fatal exit and no worker,
\* no reporter, no pool buffer, no dispatch and no written match ever exists.
BaselineCalls ==
    FindOutliers(db, NearestNeighbors, NewThreadCache(db), NewInclusionMask(db),
                 OrigContext(db), FALSE).calls

NothingStarted ==
    /\ \A w \in Workers : wPc[w] = "unstarted"
    /\ rPc = "unstarted"
    /\ buffers = <<>> /\ ctxReuseChan = <<>>
    /\ dispatched = <<>> /\ handlerCalls = <<>>
    /\ outFile = <<>> /\ foundContexts = 0
    /\ finishedCount = 0

C16_FatalBeforeConcurrency ==
    /\ BaselineCalls = <<>> => (mainPc \in {"baseline", "fatal"} /\ NothingStarted)
    /\ mainPc = "fatal" => (BaselineCalls = <<>> /\ origOutlier = -1 /\ NothingStarted)

C16_Witness ==
    /\ mainPc = "fatal"
    /\ Cardinality(IncludedBy(db, ctx)) < MinPopulationSize
    /\ NumRecords(db) >= MinPopulationSize

\* C17: for any two uint32 salaries the distance of a record to itself is
\* 0, the distance is a value of the unsigned range, it is the same in both
\* directions, and added to the smaller salary it gives the larger one
\* exactly, without a carry out of 32 bits: it is the absolute difference.
IsDistance == "ab" \in DOMAIN hLast

\* x + d = y over the naturals, on 16-bit halves
AddsTo(x, d, y) ==
    /\ (x[2] + d[2]) % Half = y[2]
    /\ x[1] + d[1] + ((x[2] + d[2]) \div Half) = y[1]

C17_DistanceIsAbsoluteDifference ==
    IsDistance =>
        /\ hLast.aa = <<0, 0>>
        /\ hLast.ab[1] \in 0 .. Half - 1 /\ hLast.ab[2] \in 0 .. Half - 1
        /\ hLast.ab = hLast.ba
        /\ AddsTo(hLast.a, hLast.ab, hLast.b) \/ AddsTo(hLast.b, hLast.ab, hLast.a)
        /\ (hLast.a[1] = 0 /\ hLast.b[1] = 0) =>
               /\ hLast.ab[1] = 0
               /\ hLast.ab[2] = Distance([Salary |-> hLast.a[2]], [Salary |-> hLast.b[2]])

C17_Witness ==
    /\ IsDistance
    /\ Uint32Less(hLast.a, hLast.b)
    /\ hLast.b[2] < hLast.a[2]
    /\ hLast.ab[1] >= 32768

\* C18: after a context with at least MinPopulationSize included records
\* has been scored, the sum of reachability distances that computeLrds
\* divides by is nonzero for every included record.
ReachabilitySum(i) == ReachSum(db, hCache, i, 1)

C18_NonzeroReachabilitySum ==
    (/\ hCalls >= 1
     /\ hLast.scored /\ ~hLast.panic
     /\ Cardinality(MaskBits(db, hIm)) >= MinPopulationSize)
        => \A i \in MaskBits(db, hIm) : ReachabilitySum(i) # 0

\* C21: the outlier list of every written match holds exactly the records
\* included by the match's context that score at least the threshold in
\* that context, each once, with that score, in ascending record order;
\* nothing of a context the worker evaluated before is in it.
FreshCache(c) ==
    FindOutliers(db, NearestNeighbors, NewThreadCache(db), NewInclusionMask(db),
                 c, TRUE).cache

OutliersOf(c, fresh) ==
    {i \in IncludedBy(db, c) : FGeq(Score(fresh, i), OutlierThreshold)}

C21_ListIsOutliersOfContext ==
    \A n \in 1 .. Len(outFile) :
        \E list \in {outFile[n].outlierList}, fresh \in {FreshCache(outFile[n].context)} :
           /\ {list[k][1] : k \in 1 .. Len(list)} = OutliersOf(outFile[n].context, fresh)
           /\ \A k \in 1 .. Len(list) - 1 : list[k][1] < list[k + 1][1]
           /\ \A k \in 1 .. Len(list) : list[k][2] = Score(fresh, list[k][1])

C21_Witness ==
    \E w \in Workers, n \in 1 .. Len(outFile) :
        /\ Len(wLog[w]) >= 2
        /\ wLog[w][1].calls # <<>>
        /\ wLog[w][2].matches
        /\ wLog[w][2].context = outFile[n].context
        /\ Len(outFile[n].outlierList) >= 2

\* C22: no send meets a closed channel.  matchingContextChan is closed only
\* when every worker has signalled completion and exited; a worker that has
\* left its loop has no match with the reporter or waiting to be sent; main
\* is past the enumeration when workChan is closed.
C22_NoSendOnClosedChannel ==
    /\ matchChanClosed => \A w \in Workers : wPc[w] = "exited"
    /\ \A w \in Workers :
          /\ wPc[w] = "submit" => ~matchChanClosed
          /\ wPc[w] \in {"finishing", "exited"} =>
                 (workChanClosed /\ ~(rPc \in {"print", "ack"} /\ rMatch = w))
    /\ workChanClosed => mainPc \in {"join", "closeMatch", "joinReporter", "done"}
    /\ mainPc # "panic"

C22_Witness ==
    /\ matchChanClosed
    /\ rPc = "recv"
    /\ workerCount >= 2
    /\ Len(outFile) >= 2
    /\ \E w \in Workers : Len(wLog[w]) >= 1 /\ Last(wLog[w]).matches

=============================================================================
